---- MODULE Spec2Model ----
(***************************************************************************)
(* Model of pingu's WebsiteMonitor (src/src/monitor.rs, src/src/website.rs) *)
(*                                                                         *)
(* The registry is a HashMap<String, Website> behind a tokio RwLock.       *)
(* Sweeper tasks run update_website_status (spawned by start_monitoring or *)
(* called directly); client tasks call add_website, websites and           *)
(* get_status.  Every .await of the source is a step boundary; the field   *)
(* assignments of the sweep loop body are separate steps as well, since    *)
(* the runtime is multi-threaded and only the lock keeps readers out.      *)
(*                                                                         *)
(* Spec is the monitor with one sweeper and one caller.  SpecScheduler     *)
(* keeps the deadlines of the interval timer, SpecOverlap runs two         *)
(* sweepers, SpecFair adds the fairness of the runtime and of the lock.    *)
(***************************************************************************)
EXTENDS Integers, Sequences, FiniteSets, Bags, TLC

\* ---------------------------------------------------------------- bounds
\* the URLs callers register are 1..MaxUrls
MaxUrls == 2
\* a behaviour registers distinct URLs, starts sweeps and lets the clock
\* advance at most MaxWork times in total
MaxWork == 3

\* ------------------------------------------------------ program constants
U16_MAX == 65535

URLS == 1..MaxUrls
\* the tasks that run update_website_status, and the callers of the registry
Tasks == {"t1"}
Clients == {"c1"}

VARIABLES
  websites,             \* self.websites: url -> Website (the HashMap)
  lock,                 \* the RwLock: [writer, readers]
  task,                 \* per sweeper task: position and locals of update_website_status
  client,               \* per client: position and locals of add_website / websites / get_status
  now,                  \* SystemTime::now()
  email_notifications,  \* cargo feature "email_notifications"
  email_config,         \* self.email_config
  sweeps,               \* number of sweeps started so far
  added                 \* history: URLs passed to add_website so far

vars == <<websites, lock, task, client, now, email_notifications, email_config,
          sweeps, added>>

\* ------------------------------------------------------------ value space
None == [tag |-> "None"]
\* the local error_message before response.text() has set it
NoText == ""

\* http::StatusCode::is_success
is_success(code) == code >= 200 /\ code < 300

\* HeaderValue::to_str: Ok for visible ASCII, Err otherwise
HeaderValues == {"ascii", "opaque"}
to_str(v) == IF v = "ascii" THEN [tag |-> "Ok", val |-> v] ELSE [tag |-> "Err"]

\* results of client.get(url).timeout(15s).send().await
TransportResults ==
  {[tag |-> "Ok", status_code |-> 200, header |-> h] : h \in HeaderValues}
    \cup {[tag |-> "Ok", status_code |-> 500, header |-> "ascii"]}
    \cup {[tag |-> "Err", err |-> "timeout"]}

\* results of response.text().await
TextResults == {[tag |-> "Ok", val |-> "body"], [tag |-> "Err"]}

\* website.rs: CheckStatus (of ResponseDetails the status code and the header
\* values are kept; content_length is copied from the response and left out)
Up(code, hdr) == [tag |-> "Up", status_code |-> code, headers |-> hdr]
Down(code, msg) == [tag |-> "Down", status_code |-> code, error_message |-> msg]

\* website.rs: CheckStatus::is_up
is_up(status) == status.tag = "Up"

\* website.rs: Check
Check(status, timestamp) == [status |-> status, timestamp |-> timestamp]

\* website.rs: FailReport
FailReport(url, code, msg, timestamp) ==
  [url |-> url, status_code |-> code, error_message |-> msg, timestamp |-> timestamp]

\* the Website value add_website inserts
NewWebsite_KeepUp(url, t) ==
  [url |-> url, last_check |-> t, is_up |-> TRUE,
   total_checks |-> <<>>, successful_checks |-> 0]
NewWebsite(url, t) ==
  [url |-> url, last_check |-> t, is_up |-> FALSE,
   total_checks |-> <<>>, successful_checks |-> 0]

\* HashMap::insert
insert_Replace(map, key, value) == [k \in {key} |-> value]
insert_KeepExisting(map, key, value) ==
  [k \in (DOMAIN map) \cup {key} |-> IF k \in DOMAIN map THEN map[k] ELSE value]
insert(map, key, value) ==
  [k \in (DOMAIN map) \cup {key} |-> IF k = key THEN value ELSE map[k]]

\* email_config.rs: the fields send_email_notification parses
ValidConfig == [to_email |-> "valid", from_email |-> "valid", smtp_relay |-> "valid"]
EmailConfigs ==
  {ValidConfig, [ValidConfig EXCEPT !.to_email = "invalid"],
   [ValidConfig EXCEPT !.from_email = "invalid"],
   [ValidConfig EXCEPT !.smtp_relay = "invalid"]}

Deliveries == {"sent", "rejected"}

\* send_email_notification: "Ok", "Err" (a `?` returned early) or "panic" (an unwrap inside)
send_email_notification(cfg, delivery) ==
  IF cfg.to_email # "valid" THEN "Err"
  ELSE IF cfg.from_email # "valid" THEN "panic"
  ELSE IF cfg.smtp_relay # "valid" THEN "panic"
  ELSE "Ok"

\* ------------------------------------------------------------------ lock
TaskId(t) == <<"task", t>>
ClientId(c) == <<"client", c>>

\* RwLock::write().await is ready (the FIFO order of tokio's wait queue is
\* not kept: any waiter may be served once the lock allows it)
WriteAvailable_ReadersOnly(l) == l.readers = {}
WriteAvailable(l) == l.writer = {} /\ l.readers = {}

\* RwLock::read().await is ready
ReadAvailable_NoExclusion(l) == TRUE
ReadAvailable(l) == l.writer = {}

\* ------------------------------------------------------------ task locals
IdleTask ==
  [pc |-> "unstarted", kind |-> "none", todo |-> {}, url |-> 0,
   response |-> None, error_message |-> NoText, fail_report |-> None,
   status |-> None, timestamp |-> 0, notified |-> 0, mail |-> "none",
   panic |-> "none", at_start |-> <<>>,
   period |-> 0, started |-> 0, deadline |-> 0]

IdleClient == [pc |-> "idle", op |-> "none", url |-> 0, result |-> None]

Init ==
  /\ websites = <<>>
  /\ lock = [writer |-> {}, readers |-> {}]
  /\ task = [t \in Tasks |-> IdleTask]
  /\ client = [c \in Clients |-> IdleClient]
  /\ now = 0
  /\ email_notifications \in BOOLEAN
  /\ email_config \in EmailConfigs
  /\ (~email_notifications => email_config = ValidConfig)
  /\ sweeps = 0
  /\ added = {}

\* the model's budget: distinct URLs registered, sweeps started, clock advances
Work == Cardinality(added) + sweeps + now

\* ------------------------------------------------------------- the clock
\* time passes between two calls of SystemTime::now()
clock_advance ==
  /\ Work < MaxWork
  /\ now' = now + 1
  /\ UNCHANGED <<websites, lock, task, client, email_notifications, email_config,
                 sweeps, added>>

\* -------------------------------------------------------------- clients
SetClient(c, r) == client' = [client EXCEPT ![c] = r]

\* a caller invokes add_website(url); it first awaits websites.write()
add_website_call(c, u) ==
  /\ client[c].pc = "idle"
  /\ u \in added \/ Work < MaxWork
  /\ SetClient(c, [client[c] EXCEPT !.pc = "add_wait", !.op = "add_website", !.url = u])
  /\ UNCHANGED <<websites, lock, task, now, email_notifications, email_config,
                 sweeps, added>>

\* add_website: websites.write().await completes
add_website_lock(c) ==
  /\ client[c].pc = "add_wait"
  /\ WriteAvailable(lock)
  /\ lock' = [lock EXCEPT !.writer = {ClientId(c)}]
  /\ SetClient(c, [client[c] EXCEPT !.pc = "add_hold"])
  /\ UNCHANGED <<websites, task, now, email_notifications, email_config,
                 sweeps, added>>

\* add_website: websites.insert(url, Website {..}), then the guard is dropped
add_website_insert(c) ==
  /\ client[c].pc = "add_hold"
  /\ websites' = insert(websites, client[c].url, NewWebsite(client[c].url, now))
  /\ lock' = [lock EXCEPT !.writer = {}]
  /\ added' = added \cup {client[c].url}
  /\ SetClient(c, IdleClient)
  /\ UNCHANGED <<task, now, email_notifications, email_config, sweeps>>

\* a caller invokes websites() or get_status(); both first await websites.read()
snapshot_call(c, op) ==
  /\ client[c].pc = "idle"
  /\ SetClient(c, [client[c] EXCEPT !.pc = "read_wait", !.op = op])
  /\ UNCHANGED <<websites, lock, task, now, email_notifications, email_config,
                 sweeps, added>>

\* websites() / get_status(): websites.read().await completes
snapshot_lock(c) ==
  /\ client[c].pc = "read_wait"
  /\ ReadAvailable(lock)
  /\ lock' = [lock EXCEPT !.readers = @ \cup {ClientId(c)}]
  /\ SetClient(c, [client[c] EXCEPT !.pc = "read_hold"])
  /\ UNCHANGED <<websites, task, now, email_notifications, email_config,
                 sweeps, added>>

\* get_status(): values().map(|w| Website {..}).collect(); values() has no
\* defined order, so the Vec is kept as the bag of its elements
get_status_vec(ws) ==
  LET copy(w) == [url |-> w.url, is_up |-> w.is_up, last_check |-> w.last_check,
                  total_checks |-> w.total_checks,
                  successful_checks |-> w.successful_checks]
  IN [e \in {copy(ws[u]) : u \in DOMAIN ws} |->
        Cardinality({u \in DOMAIN ws : copy(ws[u]) = e})]

\* websites(): the map is cloned under the read guard, the guard is dropped
websites_clone(c) ==
  /\ client[c].pc = "read_hold"
  /\ client[c].op = "websites"
  /\ lock' = [lock EXCEPT !.readers = @ \ {ClientId(c)}]
  /\ SetClient(c, [client[c] EXCEPT !.pc = "returned",
                     !.result = [tag |-> "map", map |-> websites]])
  /\ UNCHANGED <<websites, task, now, email_notifications, email_config,
                 sweeps, added>>

\* get_status(): the values are collected under the read guard, the guard is dropped
get_status_collect(c) ==
  /\ client[c].pc = "read_hold"
  /\ client[c].op = "get_status"
  /\ lock' = [lock EXCEPT !.readers = @ \ {ClientId(c)}]
  /\ SetClient(c, [client[c] EXCEPT !.pc = "returned",
                     !.result = [tag |-> "vec", vec |-> get_status_vec(websites)]])
  /\ UNCHANGED <<websites, task, now, email_notifications, email_config,
                 sweeps, added>>

\* the caller has used the returned snapshot
snapshot_return(c) ==
  /\ client[c].pc = "returned"
  /\ SetClient(c, IdleClient)
  /\ UNCHANGED <<websites, lock, task, now, email_notifications, email_config,
                 sweeps, added>>

\* ------------------------------------------------------------- sweepers
SetTask(t, r) == task' = [task EXCEPT ![t] = r]

\* start_monitoring: tokio::spawn of the loop { interval.tick().await; update_website_status().await }
start_monitoring(t) ==
  /\ task[t].pc = "unstarted"
  /\ SetTask(t, [task[t] EXCEPT !.pc = "tick", !.kind = "monitor"])
  /\ UNCHANGED <<websites, lock, client, now, email_notifications, email_config,
                 sweeps, added>>

\* the spawned loop: interval.tick().await completes, update_website_status is called
interval_tick(t) ==
  /\ task[t].pc = "tick"
  /\ Work < MaxWork
  /\ sweeps' = sweeps + 1
  /\ SetTask(t, [task[t] EXCEPT !.pc = "lock"])
  /\ UNCHANGED <<websites, lock, client, now, email_notifications, email_config,
                 added>>

\* a caller invokes update_website_status directly
update_website_status_call(t) ==
  /\ task[t].pc = "unstarted"
  /\ Work < MaxWork
  /\ sweeps' = sweeps + 1
  /\ SetTask(t, [task[t] EXCEPT !.pc = "lock", !.kind = "direct"])
  /\ UNCHANGED <<websites, lock, client, now, email_notifications, email_config,
                 added>>

\* update_website_status: websites.write().await completes; values_mut() starts
update_website_status_lock(t) ==
  /\ task[t].pc = "lock"
  /\ WriteAvailable(lock)
  /\ lock' = [lock EXCEPT !.writer = {TaskId(t)}]
  /\ SetTask(t, [task[t] EXCEPT !.pc = "loop", !.todo = DOMAIN websites, !.notified = 0,
                   !.at_start = [u \in DOMAIN websites |->
                                   [len |-> Len(websites[u].total_checks),
                                    successful_checks |-> websites[u].successful_checks]]])
  /\ UNCHANGED <<websites, client, now, email_notifications, email_config,
                 sweeps, added>>

\* the for loop takes the next value of values_mut() (no defined order) and
\* check_website sends the request, or the loop ends
update_website_status_next(t) ==
  /\ task[t].pc = "loop"
  /\ IF task[t].todo = {}
       THEN SetTask(t, [task[t] EXCEPT !.pc = "exit"])
       ELSE \E u \in task[t].todo :
              SetTask(t, [task[t] EXCEPT !.pc = "send", !.url = websites[u].url,
                                         !.todo = @ \ {u}])
  /\ UNCHANGED <<websites, lock, client, now, email_notifications, email_config,
                 sweeps, added>>

\* the CheckStatus of the Err arm and of the non-success arm
DownStatus(response, error_message) ==
  IF response.tag = "Err" THEN Down(0, response.err)
  ELSE Down(response.status_code, error_message)

\* the FailReport of the Err arm and of the non-success arm
BuildFailReport(url, response, error_message, timestamp) ==
  IF response.tag = "Err" THEN FailReport(url, U16_MAX, response.err, timestamp)
  ELSE FailReport(url, response.status_code, error_message, timestamp)

\* check_website leaves through the Down arms: with the feature the report is
\* built and send_email_notification is awaited, without it the value is returned
DownArm(t, response, error_message) ==
  IF email_notifications
    THEN SetTask(t, [task[t] EXCEPT !.pc = "notify", !.response = response,
                       !.error_message = error_message, !.notified = @ + 1,
                       !.fail_report = BuildFailReport(task[t].url, response, error_message, now)])
    ELSE SetTask(t, [task[t] EXCEPT !.pc = "l121", !.response = response,
                       !.error_message = error_message,
                       !.status = DownStatus(response, error_message)])

\* check_website: client.get(url).timeout(15s).send().await completes with r
check_website_send(t, r) ==
  /\ task[t].pc = "send"
  /\ IF r.tag = "Err"
       THEN DownArm(t, r, NoText)
       ELSE IF ~is_success(r.status_code)
         THEN SetTask(t, [task[t] EXCEPT !.pc = "text", !.response = r])
         ELSE IF to_str(r.header).tag = "Err"
           THEN SetTask(t, [task[t] EXCEPT !.pc = "unwind", !.response = r, !.panic = "headers"])
           ELSE SetTask(t, [task[t] EXCEPT !.pc = "l121", !.response = r,
                              !.status = Up(r.status_code, to_str(r.header).val)])
  /\ UNCHANGED <<websites, lock, client, now, email_notifications, email_config,
                 sweeps, added>>

\* check_website: response.text().await.unwrap() completes with b
check_website_text(t, b) ==
  /\ task[t].pc = "text"
  /\ IF b.tag = "Err"
       THEN SetTask(t, [task[t] EXCEPT !.pc = "unwind", !.panic = "text"])
       ELSE DownArm(t, task[t].response, b.val)
  /\ UNCHANGED <<websites, lock, client, now, email_notifications, email_config,
                 sweeps, added>>

\* check_website: send_email_notification(fail_report).await.unwrap() completes
check_website_notify(t, delivery) ==
  /\ task[t].pc = "notify"
  /\ LET res == send_email_notification(email_config, delivery) IN
       IF res = "Ok"
         THEN SetTask(t, [task[t] EXCEPT !.pc = "l121", !.mail = delivery,
                            !.status = DownStatus(task[t].response, task[t].error_message)])
         ELSE SetTask(t, [task[t] EXCEPT !.pc = "unwind", !.mail = res, !.panic = "notify"])
  /\ UNCHANGED <<websites, lock, client, now, email_notifications, email_config,
                 sweeps, added>>

\* let timestamp = SystemTime::now(); website.last_check = timestamp;
update_website_status_l121(t) ==
  /\ task[t].pc = "l121"
  /\ websites' = [websites EXCEPT ![task[t].url].last_check = now]
  /\ SetTask(t, [task[t] EXCEPT !.pc = "l122", !.timestamp = now])
  /\ UNCHANGED <<lock, client, now, email_notifications, email_config,
                 sweeps, added>>

\* website.is_up = status.is_up();
update_website_status_l122(t) ==
  /\ task[t].pc = "l122"
  /\ websites' = [websites EXCEPT ![task[t].url].is_up = is_up(task[t].status)]
  /\ SetTask(t, [task[t] EXCEPT !.pc = "l123"])
  /\ UNCHANGED <<lock, client, now, email_notifications, email_config,
                 sweeps, added>>

\* the value of successful_checks after lines 123-125
successful_after_Always(n, status) == n + 1
successful_after(n, status) == IF is_up(status) THEN n + 1 ELSE n

\* if status.is_up() { website.successful_checks += 1; }
update_website_status_l123(t) ==
  /\ task[t].pc = "l123"
  /\ websites' = [websites EXCEPT ![task[t].url].successful_checks =
                                     successful_after(@, task[t].status)]
  /\ SetTask(t, [task[t] EXCEPT !.pc = "l126"])
  /\ UNCHANGED <<lock, client, now, email_notifications, email_config,
                 sweeps, added>>

\* website.total_checks.push(Check { status, timestamp }); the loop body ends
update_website_status_l126(t) ==
  /\ task[t].pc = "l126"
  /\ websites' = [websites EXCEPT ![task[t].url].total_checks =
                                     Append(@, Check(task[t].status, task[t].timestamp))]
  /\ SetTask(t, [task[t] EXCEPT !.pc = "loop", !.url = 0, !.response = None,
                   !.error_message = NoText, !.fail_report = None, !.status = None,
                   !.timestamp = 0, !.mail = "none"])
  /\ UNCHANGED <<lock, client, now, email_notifications, email_config,
                 sweeps, added>>

\* update_website_status returns: the write guard is dropped; the spawned
\* loop goes back to interval.tick().await, a direct caller gets control back
update_website_status_return(t) ==
  /\ task[t].pc = "exit"
  /\ lock' = [lock EXCEPT !.writer = {}]
  /\ SetTask(t, IF task[t].kind = "monitor"
                  THEN [IdleTask EXCEPT !.pc = "tick", !.kind = "monitor",
                                        !.period = task[t].period,
                                        !.started = task[t].started,
                                        !.deadline = task[t].deadline]
                  ELSE IdleTask)
  /\ UNCHANGED <<websites, client, now, email_notifications, email_config,
                 sweeps, added>>

\* a panic unwinds out of update_website_status: the write guard is dropped,
\* the spawned task (or the direct caller) ends
update_website_status_unwind(t) ==
  /\ task[t].pc = "unwind"
  /\ lock' = [lock EXCEPT !.writer = {}]
  /\ SetTask(t, [IdleTask EXCEPT !.pc = "dead"])
  /\ UNCHANGED <<websites, client, now, email_notifications, email_config,
                 sweeps, added>>

\* ------------------------------------------------------------------ spec
Next ==
  \/ clock_advance
  \/ \E c \in Clients, u \in URLS : add_website_call(c, u)
  \/ \E c \in Clients : add_website_lock(c)
  \/ \E c \in Clients : add_website_insert(c)
  \/ \E c \in Clients, op \in {"websites", "get_status"} : snapshot_call(c, op)
  \/ \E c \in Clients : snapshot_lock(c)
  \/ \E c \in Clients : websites_clone(c)
  \/ \E c \in Clients : get_status_collect(c)
  \/ \E c \in Clients : snapshot_return(c)
  \/ \E t \in Tasks : start_monitoring(t)
  \/ \E t \in Tasks : interval_tick(t)
  \/ \E t \in Tasks : update_website_status_call(t)
  \/ \E t \in Tasks : update_website_status_lock(t)
  \/ \E t \in Tasks : update_website_status_next(t)
  \/ \E t \in Tasks, r \in TransportResults : check_website_send(t, r)
  \/ \E t \in Tasks, b \in TextResults : check_website_text(t, b)
  \/ \E t \in Tasks, d \in Deliveries : check_website_notify(t, d)
  \/ \E t \in Tasks : update_website_status_l121(t)
  \/ \E t \in Tasks : update_website_status_l122(t)
  \/ \E t \in Tasks : update_website_status_l123(t)
  \/ \E t \in Tasks : update_website_status_l126(t)
  \/ \E t \in Tasks : update_website_status_return(t)
  \/ \E t \in Tasks : update_website_status_unwind(t)

Spec == Init /\ [][Next]_vars

\* ------------------------------------------------------- the interval timer
\* Spec lets interval.tick().await complete at any time.  SpecScheduler keeps
\* the timer of tokio::time::interval: interval(period) is
\* interval_at(Instant::now(), period), so its first deadline is the instant
\* of its creation; a tick completes once the deadline is reached and moves
\* the deadline on by one period (MissedTickBehavior::Burst, the default).
\* interval() panics when the period is zero.
Intervals == {0, 1, 2}

\* start_monitoring(interval_secs): the task is spawned and creates its interval
start_monitoring_interval(t, interval_secs) ==
  /\ task[t].pc = "unstarted"
  /\ SetTask(t, IF interval_secs = 0
                  THEN [IdleTask EXCEPT !.pc = "dead"]
                  ELSE [task[t] EXCEPT !.pc = "tick", !.kind = "monitor",
                                       !.period = interval_secs,
                                       !.started = now, !.deadline = now])
  /\ UNCHANGED <<websites, lock, client, now, email_notifications, email_config,
                 sweeps, added>>

\* interval.tick().await completes: the deadline is reached; update_website_status is called
interval_tick_due(t) ==
  /\ task[t].pc = "tick"
  /\ now >= task[t].deadline
  /\ Work < MaxWork
  /\ sweeps' = sweeps + 1
  /\ SetTask(t, [task[t] EXCEPT !.pc = "lock", !.deadline = @ + task[t].period])
  /\ UNCHANGED <<websites, lock, client, now, email_notifications, email_config,
                 added>>

\* the steps of update_website_status and of check_website
SweepStep(t) ==
  \/ update_website_status_lock(t)
  \/ update_website_status_next(t)
  \/ \E r \in TransportResults : check_website_send(t, r)
  \/ \E b \in TextResults : check_website_text(t, b)
  \/ \E d \in Deliveries : check_website_notify(t, d)
  \/ update_website_status_l121(t)
  \/ update_website_status_l122(t)
  \/ update_website_status_l123(t)
  \/ update_website_status_l126(t)
  \/ update_website_status_return(t)
  \/ update_website_status_unwind(t)

NextScheduler ==
  \/ clock_advance
  \/ \E c \in Clients, u \in URLS : add_website_call(c, u)
  \/ \E c \in Clients : add_website_lock(c)
  \/ \E c \in Clients : add_website_insert(c)
  \/ \E t \in Tasks, i \in Intervals : start_monitoring_interval(t, i)
  \/ \E t \in Tasks : interval_tick_due(t)
  \/ \E t \in Tasks : SweepStep(t)

SpecScheduler == Init /\ [][NextScheduler]_vars

\* ------------------------------------------------------ several sweepers
\* SpecOverlap runs two executions of update_website_status side by side:
\* start_monitoring called twice, or a spawned loop next to a direct caller.
Sweepers == {"t1", "t2"}

InitOverlap ==
  /\ websites = <<>>
  /\ lock = [writer |-> {}, readers |-> {}]
  /\ task = [t \in Sweepers |-> IdleTask]
  /\ client = [c \in Clients |-> IdleClient]
  /\ now = 0
  /\ email_notifications \in BOOLEAN
  /\ email_config \in EmailConfigs
  /\ (~email_notifications => email_config = ValidConfig)
  /\ sweeps = 0
  /\ added = {}

NextOverlap ==
  \/ \E c \in Clients, u \in URLS : add_website_call(c, u)
  \/ \E c \in Clients : add_website_lock(c)
  \/ \E c \in Clients : add_website_insert(c)
  \/ \E t \in Sweepers : start_monitoring(t)
  \/ \E t \in Sweepers : interval_tick(t)
  \/ \E t \in Sweepers : update_website_status_call(t)
  \/ \E t \in Sweepers : SweepStep(t)

SpecOverlap == InitOverlap /\ [][NextOverlap]_vars

\* ---------------------------------------------------------------- progress
\* SpecFair adds what the runtime guarantees: a task that can run is polled
\* again (weak fairness of the steps of a sweep and of a call), every request
\* ends, at the latest by its timeout, and tokio's RwLock is fair, its
\* waiters being served in the order of their arrival (strong fairness of the
\* lock acquisitions).
ClientStep(c) ==
  \/ add_website_insert(c)
  \/ websites_clone(c)
  \/ get_status_collect(c)
  \/ snapshot_return(c)

Fairness ==
  /\ \A t \in Tasks : WF_vars(SweepStep(t)) /\ SF_vars(update_website_status_lock(t))
  /\ \A c \in Clients : /\ WF_vars(ClientStep(c))
                        /\ SF_vars(add_website_lock(c))
                        /\ SF_vars(snapshot_lock(c))

SpecFair == Init /\ [][Next]_vars /\ Fairness

\* ================================================================ claims
Last(h) == h[Len(h)]
UpRecords(h) == {i \in 1..Len(h) : h[i].status.tag = "Up"}
DownRecords(h) == {i \in 1..Len(h) : h[i].status.tag = "Down"}

\* an entry whose counters and flag agree with its history
CountersAgree(w) ==
  /\ w.successful_checks = Cardinality(UpRecords(w.total_checks))
  /\ Len(w.total_checks) = 0 => ~w.is_up
  /\ Len(w.total_checks) > 0 => (w.is_up <=> Last(w.total_checks).status.tag = "Up")

\* an entry that reflects a whole number of completed updates
WholeEntry(w) ==
  /\ CountersAgree(w)
  /\ Len(w.total_checks) > 0 => w.last_check = Last(w.total_checks).timestamp

\* the entry of u is between the is_up assignment and the push of one loop body
InLoopBody(u) == \E t \in Tasks : task[t].pc \in {"l123", "l126"} /\ task[t].url = u

\* C1: every registered entry that is not inside the loop body of a running
\* sweep has successful_checks equal to the number of Up records of its
\* history, is_up equal to the Up-ness of its last record, and is_up false
\* while the history is empty.
C1_CountersMirrorHistory ==
  \A u \in DOMAIN websites : ~InLoopBody(u) => CountersAgree(websites[u])

\* C1 witness: an entry swept twice, once Up and once Down, with no update running
C1_Witness ==
  \E u \in DOMAIN websites :
    /\ Len(websites[u].total_checks) = 2
    /\ websites[u].successful_checks = 1
    /\ ~websites[u].is_up
    /\ \A t \in Tasks : task[t].pc \notin {"l121", "l122", "l123", "l126"}

\* the URLs of a sweep: the entries registered when it took the lock
SweptUrls(t) == DOMAIN task[t].at_start
SweepEnded(t) == task[t].pc \in {"exit", "unwind"}

\* C2: when a sweep ends, every URL registered when it started has exactly one
\* more history record, and successful_checks grew by 1 if that record is Up
\* and by 0 if it is Down.
C2_OneRecordPerUrl ==
  \A t \in Tasks : SweepEnded(t) =>
    \A u \in SweptUrls(t) :
      /\ Len(websites[u].total_checks) = task[t].at_start[u].len + 1
      /\ websites[u].successful_checks =
           task[t].at_start[u].successful_checks
             + (IF Last(websites[u].total_checks).status.tag = "Up" THEN 1 ELSE 0)

\* the entries a returned snapshot holds
ResultEntries(r) ==
  IF r.tag = "map" THEN {r.map[u] : u \in DOMAIN r.map}
  ELSE IF r.tag = "vec" THEN BagToSet(r.vec)
  ELSE {}

\* C3: every entry of every snapshot returned by websites() or get_status()
\* has is_up agreeing with its last record, successful_checks equal to its
\* number of Up records and last_check equal to its last record's timestamp.
C3_SnapshotEntriesWhole ==
  \A c \in Clients : \A w \in ResultEntries(client[c].result) : WholeEntry(w)

\* C3 witness: a snapshot holding a swept entry was returned while another
\* call of update_website_status is under way
C3_Witness ==
  \E c \in Clients, t \in Tasks :
    /\ client[c].pc = "returned"
    /\ \E w \in ResultEntries(client[c].result) : Len(w.total_checks) > 0
    /\ task[t].pc = "lock"

\* C4: no request is in flight while the sweep holds the write lock.
C4_NoProbeUnderWriteLock ==
  \A t \in Tasks : task[t].pc \in {"send", "text"} => TaskId(t) \notin lock.writer

\* the Down records a sweep has appended so far
DownRecordedBy(t) ==
  {<<u, i>> \in SweptUrls(t) \X (1..(MaxWork + 1)) :
     /\ i > task[t].at_start[u].len
     /\ i \in DownRecords(websites[u].total_checks)}

\* C5: with notifications enabled, when a sweep ends the number of reports
\* handed to send_email_notification equals the number of Down records the
\* sweep appended.
C5_OneReportPerDownRecord ==
  email_notifications =>
    \A t \in Tasks : SweepEnded(t) => task[t].notified = Cardinality(DownRecordedBy(t))

\* C6: a failing send_email_notification never aborts the sweep.
C6_NotifyFailureKeepsSweep ==
  \A t \in Tasks : ~(task[t].pc = "unwind" /\ task[t].panic = "notify")

\* C7: check_website returns a value for every transport result; it never panics.
C7_ProbeNeverPanics ==
  \A t \in Tasks : task[t].pc # "unwind"

\* the value the classification rule gives for a transport result
Classified(response, body) ==
  IF response.tag = "Err" THEN Down(0, response.err)
  ELSE IF response.status_code \in 200..299
    THEN [tag |-> "Up", status_code |-> response.status_code]
    ELSE Down(response.status_code, body)

\* C8: every finished probe yields the value of the classification rule: Up
\* with the code for 2xx, Down with the code and the body otherwise, Down with
\* code 0 and the transport error when there was no response.
C8_Classification ==
  \A t \in Tasks : task[t].pc \in {"l121", "unwind"} =>
    /\ task[t].pc = "l121"
    /\ LET want == Classified(task[t].response, task[t].error_message) IN
         /\ task[t].status.tag = want.tag
         /\ task[t].status.status_code = want.status_code
         /\ want.tag = "Down" => task[t].status = want
         /\ want.tag = "Down" => (want.status_code = 0 <=> task[t].response.tag = "Err")

\* what add_website leaves for a URL: empty history, zero counter, not up
Fresh(w, u) ==
  /\ w.url = u
  /\ w.total_checks = <<>>
  /\ w.successful_checks = 0
  /\ w.is_up = FALSE

\* the snapshots websites() and get_status() return of a registry
SnapshotsOf(ws) ==
  {[tag |-> "map", map |-> ws], [tag |-> "vec", vec |-> get_status_vec(ws)]}

\* the number of entries of a snapshot that carry the URL u
EntriesFor(r, u) ==
  IF r.tag = "map" THEN Cardinality({k \in DOMAIN r.map : r.map[k].url = u})
  ELSE BagCardinality([e \in {x \in BagToSet(r.vec) : x.url = u} |-> r.vec[e]])

SnapshotSize(r) ==
  IF r.tag = "map" THEN Cardinality(DOMAIN r.map) ELSE BagCardinality(r.vec)

\* C9: a snapshot taken right after add_website(u) shows u exactly once, with
\* empty history, successful_checks = 0 and is_up = false, and has as many
\* entries as distinct URLs were added so far.
C9_AddThenSnapshot ==
  [][\A c \in Clients : add_website_insert(c) =>
       \A r \in SnapshotsOf(websites') :
         /\ SnapshotSize(r) = Cardinality(added')
         /\ EntriesFor(r, client[c].url) = 1
         /\ \A w \in ResultEntries(r) : w.url = client[c].url => Fresh(w, client[c].url)
         /\ r.tag = "map" => /\ client[c].url \in DOMAIN r.map
                             /\ r.map[client[c].url].url = client[c].url]_vars

\* C9 witness: a returned snapshot of the unchanged registry shows a fresh
\* entry next to a swept one
C9_Witness ==
  \E c \in Clients :
    /\ client[c].pc = "returned"
    /\ client[c].result \in SnapshotsOf(websites)
    /\ SnapshotSize(client[c].result) = 2
    /\ \E w \in ResultEntries(client[c].result) : w.total_checks = <<>>
    /\ \E w \in ResultEntries(client[c].result) : w.total_checks # <<>>

\* what add_website(u) does to a registry that holds u: the entry of u becomes
\* the fresh value stamped with the current time, whatever it held before, and
\* no other entry changes
ReAddOverwrites ==
  [][\A c \in Clients :
       (add_website_insert(c) /\ client[c].url \in DOMAIN websites) =>
         /\ DOMAIN websites' = DOMAIN websites
         /\ Fresh(websites'[client[c].url], client[c].url)
         /\ websites'[client[c].url].last_check = now
         /\ \A v \in DOMAIN websites :
              v # client[c].url => websites'[v] = websites[v]]_vars

\* C10: re-adding a registered URL leaves it with empty history, zero counter
\* and is_up false, leaves every other entry as it was, and add_website
\* applied to the state a previous add_website of the same URL left yields
\* that same state.
C10_ReAddIdempotent ==
  [][\A c \in Clients :
       (add_website_insert(c) /\ client[c].url \in DOMAIN websites) =>
         /\ Fresh(websites'[client[c].url], client[c].url)
         /\ \A v \in DOMAIN websites :
              v # client[c].url => websites'[v] = websites[v]
         /\ Fresh(websites[client[c].url], client[c].url) => websites' = websites]_vars

\* the ticks the interval of a spawned task has completed so far
TicksFired(t) == (task[t].deadline - task[t].started) \div task[t].period

\* C11: the scheduler triggers its k-th sweep no earlier than k full intervals
\* after start_monitoring was called; in particular the first tick does not
\* fire before one interval has elapsed.
C11_FirstTickAfterInterval ==
  [][\A t \in Tasks :
       interval_tick_due(t) =>
         now >= task[t].started + (TicksFired(t) + 1) * task[t].period]_vars

\* the per-URL state: Unknown before the first record, then Up or Down
UrlState(w) ==
  IF w.total_checks = <<>> THEN "Unknown"
  ELSE IF Last(w.total_checks).status.tag = "Up" THEN "Up" ELSE "Down"

\* this step is the push of a sweep for u / the insert of add_website(u)
PushFor(u) == \E t \in Tasks : update_website_status_l126(t) /\ task[t].url = u
AddFor(u) == \E c \in Clients : add_website_insert(c) /\ client[c].url = u

\* C12: the state of a registered URL changes only in the push of a sweep, and
\* a URL whose history is non-empty never gets an empty history again,
\* whatever operation runs.
C12_UnknownNeverReentered ==
  [][\A u \in DOMAIN websites :
       /\ u \in DOMAIN websites'
       /\ UrlState(websites'[u]) # UrlState(websites[u]) => PushFor(u)
       /\ websites[u].total_checks # <<>> => websites'[u].total_checks # <<>>]_vars

\* C12 as amended: the state of a registered URL changes only in the push of a
\* sweep for it or in add_website of that URL; add_website(u) always leaves u
\* Unknown, and no other step empties a history.
C12_UnknownOnlyByAdd ==
  [][\A u \in DOMAIN websites :
       /\ u \in DOMAIN websites'
       /\ UrlState(websites'[u]) # UrlState(websites[u]) => PushFor(u) \/ AddFor(u)
       /\ AddFor(u) => UrlState(websites'[u]) = "Unknown"
       /\ \A t \in Tasks :
            (update_website_status_l126(t) /\ task[t].url = u) =>
              UrlState(websites'[u]) = (IF is_up(task[t].status) THEN "Up" ELSE "Down")
       /\ ~AddFor(u) => (websites[u].total_checks # <<>> => websites'[u].total_checks # <<>>)]_vars

\* C12 witness: add_website holds the lock for a URL whose history is not empty
C12_Witness ==
  \E c \in Clients :
    /\ client[c].pc = "add_hold"
    /\ client[c].url \in DOMAIN websites
    /\ UrlState(websites[client[c].url]) \in {"Up", "Down"}

IsPrefix(h, g) == Len(h) <= Len(g) /\ \A i \in 1..Len(h) : g[i] = h[i]

\* what the code keeps of a history: a step other than add_website(u) leaves
\* it as it was or appends one record, and timestamps never decrease
HistoryAppendOnly ==
  [][\A u \in DOMAIN websites :
       /\ ~AddFor(u) => IsPrefix(websites[u].total_checks, websites'[u].total_checks)
       /\ \A i, j \in 1..Len(websites[u].total_checks) :
            i < j => websites[u].total_checks[i].timestamp
                       <= websites[u].total_checks[j].timestamp]_vars

\* C13: the timestamps of every history are strictly increasing from oldest to
\* newest, and every step other than add_website(u) leaves the history of u a
\* prefix of what it becomes.
C13_HistoryStrictlyOrdered ==
  [][\A u \in DOMAIN websites :
       /\ ~AddFor(u) => IsPrefix(websites[u].total_checks, websites'[u].total_checks)
       /\ \A i, j \in 1..Len(websites'[u].total_checks) :
            i < j => websites'[u].total_checks[i].timestamp
                       < websites'[u].total_checks[j].timestamp]_vars

\* website.rs: last_check is a SystemTime, not an Option: an entry "has" a
\* last_check when the field holds a time
HasLastCheck(w) == w.last_check \in Nat

\* the entry of u is between the last_check assignment and the push of one loop body
LastCheckAhead(u) ==
  \E t \in Tasks : task[t].pc \in {"l122", "l123", "l126"} /\ task[t].url = u

\* C14: an entry with an empty history has no last_check, and an entry with a
\* non-empty history has the timestamp of its last record as last_check
\* (outside the loop body that is updating it).
C14_LastCheckMirrorsHistory ==
  \A u \in DOMAIN websites : ~LastCheckAhead(u) =>
    IF websites[u].total_checks = <<>>
      THEN ~HasLastCheck(websites[u])
      ELSE /\ HasLastCheck(websites[u])
           /\ websites[u].last_check = Last(websites[u].total_checks).timestamp

\* what the code keeps of C14: once the history is non-empty, last_check is
\* the timestamp of the last record
LastCheckOfProbed ==
  \A u \in DOMAIN websites :
    (~LastCheckAhead(u) /\ websites[u].total_checks # <<>>) =>
      websites[u].last_check = Last(websites[u].total_checks).timestamp

\* the sweep of t can send the request for another of its URLs now
ProbeCanStart(t) == ENABLED update_website_status_next(t)

\* C15: while a probe of a sweep has not returned and the sweep has further
\* URLs to check, the request for another URL can be sent: a pending probe
\* does not hold back the rest of the sweep.
C15_PendingProbeDoesNotBlock ==
  \A t \in Tasks :
    (task[t].pc \in {"send", "text"} /\ task[t].todo # {}) => ProbeCanStart(t)

\* C16: the task start_monitoring spawned never ends: after every step it is
\* still the periodic task, waiting for its next tick or inside a sweep, so
\* that another sweep can follow every tick.
C16_PeriodicTaskNeverEnds ==
  [][\A t \in Tasks :
       task[t].kind = "monitor" =>
         /\ task'[t].kind = "monitor"
         /\ task'[t].pc \notin {"dead", "unstarted"}]_vars

\* the execution of update_website_status by t holds the write guard
InSweep(t) ==
  task[t].pc \in {"loop", "send", "text", "notify", "l121", "l122", "l123", "l126",
                  "exit", "unwind"}

\* the URL whose request t has in flight, if any
InFlight(t) == IF task[t].pc \in {"send", "text"} THEN {task[t].url} ELSE {}

\* C17: at most one execution of update_website_status is inside its sweep at
\* any moment, whoever started them, and no URL has two requests in flight.
C17_SweepsNeverOverlap ==
  \A t1, t2 \in Sweepers : t1 # t2 =>
    /\ ~(InSweep(t1) /\ InSweep(t2))
    /\ InFlight(t1) \cap InFlight(t2) = {}
    /\ InSweep(t1) => lock.writer = {TaskId(t1)}

\* C17 witness: a spawned loop has a request in flight while a second sweep,
\* started meanwhile, waits for the write guard
C17_Witness ==
  \E t1, t2 \in Sweepers :
    /\ task[t1].kind = "monitor" /\ task[t1].pc = "send"
    /\ task[t2].pc = "lock"

\* C18: when a sweep appends a Down record for which it handed a report to
\* send_email_notification, the report carries the probed URL and the
\* status_code and error_message of that record; the code is 0 when there was
\* no response.
C18_ReportDescribesOutcome ==
  [][\A t \in Tasks :
       (update_website_status_l126(t) /\ task[t].fail_report # None) =>
         LET rec == Last(websites'[task[t].url].total_checks).status
             rep == task[t].fail_report
         IN /\ rec.tag = "Down"
            /\ rep.url = task[t].url
            /\ rep.status_code = rec.status_code
            /\ rep.error_message = rec.error_message
            /\ task[t].response.tag = "Err" => rep.status_code = 0]_vars

\* what the code keeps of C18: url and error_message of the report are those
\* of the record, and so is the status code whenever a response was received
ReportOfResponse ==
  [][\A t \in Tasks :
       (update_website_status_l126(t) /\ task[t].fail_report # None) =>
         LET rec == Last(websites'[task[t].url].total_checks).status
             rep == task[t].fail_report
         IN /\ rec.tag = "Down"
            /\ rep.url = task[t].url
            /\ rep.error_message = rec.error_message
            /\ task[t].response.tag = "Ok" => rep.status_code = rec.status_code
            /\ task[t].response.tag = "Err" =>
                 rep.status_code = U16_MAX /\ rec.status_code = 0]_vars

\* this step is one of task t, spawned loop or direct caller of
\* update_website_status (each of them moves the task on) / one of a call of
\* websites() or get_status() by c
SweepStepOf(t) == task'[t].pc # task[t].pc
SnapshotStepOf(c) ==
  /\ client'[c].pc # client[c].pc
  /\ client[c].pc \in {"read_wait", "read_hold", "returned"} \/ client'[c].pc = "read_wait"

\* C19: no step removes a key; the key set grows only in add_website, by the
\* added URL; every entry's url is its key; a step of a sweep changes at most
\* the registered entry it is updating; a step of a snapshot changes nothing.
C19_KeysOnlyGrowByAdd ==
  [][/\ DOMAIN websites \subseteq DOMAIN websites'
     /\ DOMAIN websites' # DOMAIN websites =>
          \E c \in Clients : /\ add_website_insert(c)
                             /\ DOMAIN websites' = DOMAIN websites \cup {client[c].url}
     /\ \A u \in DOMAIN websites' : websites'[u].url = u
     /\ \A t \in Tasks : SweepStepOf(t) =>
          /\ DOMAIN websites' = DOMAIN websites
          /\ \A u \in DOMAIN websites :
               websites'[u] # websites[u] => u = task[t].url /\ u \in SweptUrls(t)
     /\ \A c \in Clients : SnapshotStepOf(c) => websites' = websites]_vars

\* C19 witness: two URLs are registered, a spawned loop has finished a sweep
\* that recorded a check, and a snapshot has been returned
C19_Witness ==
  \E c \in Clients, t \in Tasks :
    /\ client[c].pc = "returned"
    /\ Cardinality(DOMAIN websites) = 2
    /\ task[t].kind = "monitor" /\ task[t].pc = "tick"
    /\ \E u \in DOMAIN websites : websites[u].total_checks # <<>>

\* a call of c is waiting for the lock / has returned to its caller
Waiting(c) == client[c].pc \in {"add_wait", "read_wait"}
Returned(c) == client[c].pc \in {"idle", "returned"}

\* the awaits inside a sweep that holds the write guard: the request and its
\* body (monitor.rs 61, 66) and the delivery of the report (monitor.rs 75, 105)
Suspended(t) == task[t].pc \in {"send", "text", "notify"}

\* what the code keeps of C20: every sweep that holds the write guard
\* eventually ends, returning or unwinding, and the guard is then released;
\* every call that waits for the lock eventually returns; whenever no writer
\* holds the lock, every entry of the registry and of a returned snapshot
\* agrees with its history
SweepEndsAndCallsReturn ==
  /\ \A t \in Tasks : InSweep(t) ~> (~InSweep(t) /\ TaskId(t) \notin lock.writer)
  /\ \A c \in Clients : Waiting(c) ~> Returned(c)
  /\ [](lock.writer = {} => \A u \in DOMAIN websites : WholeEntry(websites[u]))
  /\ [](\A c \in Clients : Returned(c) =>
          \A w \in ResultEntries(client[c].result) : WholeEntry(w))

\* C20: a sweep that holds the write guard is suspended nowhere but in its
\* request, which its timeout bounds; every such sweep eventually ends,
\* returning or aborted, and the guard is then released; every add_website,
\* websites or get_status call that waits for the lock eventually returns; and
\* the entries are then consistent with their histories.
C20_SweepSuspendsOnlyInProbe ==
  /\ [](\A t \in Tasks : (InSweep(t) /\ Suspended(t)) => task[t].pc \in {"send", "text"})
  /\ \A t \in Tasks : InSweep(t) ~> (~InSweep(t) /\ TaskId(t) \notin lock.writer)
  /\ \A c \in Clients : Waiting(c) ~> Returned(c)
  /\ [](lock.writer = {} => \A u \in DOMAIN websites : WholeEntry(websites[u]))

====
